---- MODULE Spec2Model ----
(***************************************************************************)
(* The in-process agent broker of moto_travel (InMemoryA2AProtocol) and    *)
(* the message classes it builds, as a state machine.                      *)
(*                                                                         *)
(* One "call" is one invocation of a public coroutine of the broker        *)
(* (send_request, send_notification, send_message) running in its own      *)
(* asyncio task.  A coroutine runs without interruption up to its next     *)
(* real suspension, so each action is one such uninterrupted stretch.      *)
(* The only suspension points are: the awaited handler (when the handler   *)
(* itself suspends) and the wait on the pending Future.                    *)
(*                                                                         *)
(* Around the broker: the agent base classes (register_action_handler,     *)
(* execute with its status and statistics, AsyncAgent's semaphore), one    *)
(* run of TravelPlanningWorkflow, the two routers (AgentRouter and         *)
(* EnhancedAgentRouter) and the WorkflowManager.  Each component has its   *)
(* own specification (SpecAgent, SpecAsync, SpecPipeline, SpecRegistry,    *)
(* SpecInFlight, SpecResolve, SpecRouter, SpecEnhanced, SpecManager) over  *)
(* the same Init.                                                          *)
(***************************************************************************)
EXTENDS Naturals, FiniteSets, Sequences, TLC

\* ---------------------------------------------------------------- bounds
MaxCalls == 2
MaxExec  == 3
MaxBurst == 12
MaxRoutes == 3

AgentNames == {"route", "weather"}
Insts      == {"i1"}
Senders    == {"route"}
ActionNames == {"plan", "ping"}
Timeouts   == {"None", "0", "positive"}   \* Optional[float]: None, 0.0, t > 0
CallIds    == 1 .. MaxCalls
NoId       == 0                            \* original_request_id = None
ExecIds    == 1 .. MaxExec                 \* the execute calls on one agent object
Durations  == {1, 2}                       \* (utcnow() - start_time).total_seconds()
SemaphoreLimit == 10                       \* asyncio.Semaphore(10)

VARIABLES
    agents,            \* self.agents: agent_name -> agent_instance ("absent" = no key)
    handlers,          \* self.handlers: agent_name -> {action -> handler} ("none" = no entry)
    pending_requests,  \* keys of self.pending_requests (request_id -> Future)
    calls,             \* the coroutine invocations: arguments, position, local future, outcome
    ncalls,            \* number of invocations started so far (the next fresh uuid)
    typeTagDefaulted,  \* does AgentMessage.__init__ accept a call without message_type?
    wrapped,           \* (agent name, action) pairs whose fn BaseAgent wrapped into async_handler
    status,            \* self.status of one agent object
    execution_count,   \* self._execution_count
    total_execution_time,  \* self._total_execution_time
    execs,             \* the execute calls on that object: position, outcome, elapsed time
    async_agent,       \* one AsyncAgent object: its semaphore, its fields, its execute calls
    state,             \* the state mapping of one TravelPlanningWorkflow.run
    run_pc,            \* where that run is: "idle", the stage it awaits, "finalize", "returned"
    trace,             \* the starts and ends of the stages and of the finalization, in order
    stage_results,     \* per stage: whether its execute returned or raised, and what it returned
    finalization,      \* how _finalize_plan ended: "-", "succeeded", "failed"
    former,            \* (agent name, action) pairs whose handler a registration dropped
    resolution,        \* the last intent resolution of AgentRouter: its inputs and its result
    router,            \* one AgentRouter object: the execute call it is in
    route_log,         \* the classifications AgentRouter.execute has made, in order
    executions,        \* per routed agent: its _execution_count
    enhanced,          \* one EnhancedAgentRouter object: the execute call it is in
    manager            \* WorkflowManager and the status record of one trip_plan_id

brokerVars == <<agents, handlers, pending_requests, calls, ncalls, typeTagDefaulted>>

\* the fields of the objects around the broker (declared further down)
agentVars == <<wrapped, status, execution_count, total_execution_time, execs>>
pipeVars == <<state, run_pc, trace, stage_results, finalization>>
routerVars == <<resolution, router, route_log, executions>>
serviceVars == <<former, routerVars, enhanced, manager>>
aroundBroker == <<agentVars, async_agent, pipeVars, serviceVars>>

vars == <<brokerVars, aroundBroker>>

\* ------------------------------------------------------------- messages
\* message.py, lines 28-31: the dataclass fields of AgentMessage that have no
\* default value.  message_type is one of them: the __post_init__ of each
\* variant sets the tag, but only after __init__ has accepted the call.
RequiredFields ==
    IF typeTagDefaulted THEN {"from_agent", "to_agent", "action"}
    ELSE {"from_agent", "to_agent", "message_type", "action"}

\* The dataclass-generated __init__: raises TypeError unless every field that
\* has no default is among the keyword arguments given.
InitAccepts(kwargs) == RequiredFields \subseteq kwargs

\* The keyword arguments of the constructor calls in a2a_protocol.py.
RequestKwargs ==
    {"from_agent", "to_agent", "action", "payload", "timeout", "priority"}
ResponseKwargs ==
    {"from_agent", "to_agent", "action", "success", "error",
     "original_request_id", "payload"}
NotificationKwargs ==
    {"from_agent", "to_agent", "action", "payload", "priority"}

\* A ResponseMessage value.
ResponseMessage(from, to, act, success, error, orig) ==
    [from_agent |-> from, to_agent |-> to, action |-> act,
     success |-> success, error |-> error, original_request_id |-> orig]

\* What a coroutine hands to its caller.
Running       == [tag |-> "Running"]
ReturnedNone  == [tag |-> "None"]
Returned(r)   == [tag |-> "Response", msg |-> r]
Raised(e)     == [tag |-> "Raised", exc |-> e]

\* An unset Future.
Unset == [tag |-> "Unset"]

\* A call slot that has not been used yet.  invoked counts the handler
\* invocations made for the call and hout records how the handler ended
\* ("return", "raise", "nonmsg"; "-" while it has not).
FreeCall ==
    [api |-> "free", pc |-> "free", from_agent |-> "-", to_agent |-> "-",
     action |-> "-", timeout |-> "None", mtype |-> "-", orig |-> NoId,
     future |-> Unset, result |-> Running, invoked |-> 0, hout |-> "-"]


\* ------------------------------------------------------------- handlers
HandlerIds == {"h1"}

\* What one invocation of a registered handler (an arbitrary async callable)
\* can end with: a ResponseMessage it built itself (whose original_request_id
\* is whatever the handler put there), an exception, or a value that is no
\* message object (None).
HandlerOrigs == {NoId, 1}
HandlerOutcomes ==
    {[how |-> "return", orig |-> o] : o \in HandlerOrigs}
    \cup {[how |-> "raise", orig |-> NoId], [how |-> "nonmsg", orig |-> NoId]}

\* str(e) of what the try block of _handle_request can raise.
ErrorText(o) ==
    IF o.how = "raise" THEN "boom"
    ELSE "'NoneType' object has no attribute 'original_request_id'"

\* f"No handler found for action: {action}"
NoHandlerError(action) ==
    IF action = "plan" THEN "No handler found for action: plan"
    ELSE "No handler found for action: ping"

\* self.handlers.get(agent_name, {}).get(action)
Lookup(agent_name, action) == handlers[agent_name][action]

\* _handle_request when no handler is found (lines 83-93).
NoHandlerResult(q, rid) ==
    IF InitAccepts(ResponseKwargs)
    THEN Returned(ResponseMessage(q.to_agent, q.from_agent, q.action, FALSE,
                                  NoHandlerError(q.action), rid))
    ELSE Raised("TypeError")

\* The ResponseMessage object a handler built and returned.
HandlerResponse(q, o) ==
    ResponseMessage(q.to_agent, q.from_agent, q.action, TRUE, "None", o.orig)

\* response.original_request_id = request.request_id (line 98).
SetOriginal(response, request_id) ==
    [response EXCEPT !.original_request_id = request_id]

\* _handle_request once the awaited handler has ended with o (lines 95-110).
HandledResult(q, rid, o) ==
    IF o.how = "return"
    THEN Returned(SetOriginal(HandlerResponse(q, o), rid))
    ELSE IF InitAccepts(ResponseKwargs)
    THEN Returned(ResponseMessage(q.to_agent, q.from_agent, q.action, FALSE,
                                  ErrorText(o), rid))
    ELSE Raised("TypeError")

Suspended == [tag |-> "Suspended"]

\* send_message on a Request (lines 61-66 and _handle_request), up to the
\* first suspension: every way the stretch can end.
RequestMoves(q, rid) ==
    IF agents[q.to_agent] = "absent"
    THEN {[sm |-> ReturnedNone, how |-> "-"]}
    ELSE IF Lookup(q.to_agent, q.action) = "none"
    THEN {[sm |-> NoHandlerResult(q, rid), how |-> "-"]}
    ELSE {[sm |-> Suspended, how |-> "-"]}
         \cup {[sm |-> HandledResult(q, rid, o), how |-> o.how] :
                    o \in HandlerOutcomes}

\* send_message on a Notification (lines 61-69 and _handle_notification).
NotificationMoves(q) ==
    IF agents[q.to_agent] = "absent" \/ Lookup(q.to_agent, q.action) = "none"
    THEN {[sm |-> ReturnedNone, how |-> "-"]}
    ELSE {[sm |-> Suspended, how |-> "-"]}
         \cup {[sm |-> ReturnedNone, how |-> o.how] : o \in HandlerOutcomes}

\* Has send_message called a handler for q?
Invokes(q) ==
    IF agents[q.to_agent] # "absent" /\ Lookup(q.to_agent, q.action) # "none"
    THEN 1 ELSE 0

\* The pending slot is left in place when send_message hands back a Response
\* (lines 160-164) and removed by the except clauses (lines 175, 186).
SlotsAfter(pend, rid, sm) ==
    IF sm.tag = "Raised" THEN pend \ {rid} ELSE pend

\* send_request from the return of send_message on (lines 158-195): the new
\* call record, given what send_message handed back.
AfterSendMessage(q, rid, sm) ==
    CASE sm.tag = "Response" ->
           [q EXCEPT !.pc = "done", !.result = sm,
                     !.future = IF q.future = Unset THEN sm.msg ELSE q.future]
      [] sm.tag = "None" -> [q EXCEPT !.pc = "await_future"]
      [] OTHER ->
           [q EXCEPT !.pc = "done", !.result =
               IF InitAccepts(ResponseKwargs)
               THEN Returned(ResponseMessage(q.to_agent, q.from_agent,
                                             q.action, FALSE, sm.exc, rid))
               ELSE Raised("TypeError")]

\* ---------------------------------------------------------------- state
TypeOK ==
    /\ agents \in [AgentNames -> Insts \cup {"absent"}]
    /\ handlers \in [AgentNames -> [ActionNames -> HandlerIds \cup {"none"}]]
    /\ pending_requests \subseteq CallIds
    /\ ncalls \in 0 .. MaxCalls
    /\ typeTagDefaulted \in BOOLEAN

\* An execute call that has not been made.
FreeExec ==
    [pc |-> "free", outcome |-> "-", result |-> "-", elapsed |-> 0,
     left_status |-> "-"]

\* BaseAgent.__init__: status IDLE, both counters zero; no function wrapped yet.
InitAgent ==
    /\ wrapped = {}
    /\ status = "idle"
    /\ execution_count = 0
    /\ total_execution_time = 0
    /\ execs = [e \in ExecIds |-> FreeExec]

\* AsyncAgent.__init__: the fields of BaseAgent.__init__ and a semaphore with
\* ten free slots; no execute call has been issued.
InitAsyncAgent ==
    async_agent = [value |-> SemaphoreLimit, waiting |-> 0, woken |-> 0,
                   inside |-> 0, issued |-> 0, returned |-> 0, raised |-> 0,
                   status |-> "idle", execution_count |-> 0,
                   total_execution_time |-> 0]

\* The declared stages, in the order run visits them.
node_order == <<"destination", "flight", "hotel", "dining", "itinerary", "budget">>
Stages == {node_order[i] : i \in 1 .. Len(node_order)}

\* f"{node_name}_result"
ResultKey(node_name) ==
    CASE node_name = "destination" -> "destination_result"
      [] node_name = "flight"      -> "flight_result"
      [] node_name = "hotel"       -> "hotel_result"
      [] node_name = "dining"      -> "dining_result"
      [] node_name = "itinerary"   -> "itinerary_result"
      [] OTHER                     -> "budget_result"
ResultKeys == {ResultKey(n) : n \in Stages}

\* Before run is called there is no state mapping.
NoState ==
    [current_step |-> "-", completed_steps |-> <<>>, failed_steps |-> <<>>,
     results |-> [k \in ResultKeys |-> "None"], final_plan |-> "None",
     plan_status |-> "-", error_message |-> "None", start_time |-> "None",
     end_time |-> "None", total_execution_time |-> "None"]

NotRun == [how |-> "-", pairs |-> <<>>]

\* The module-level workflow object; run has not been called.
InitPipeline ==
    /\ state = NoState
    /\ run_pc = "idle"
    /\ trace = <<>>
    /\ stage_results = [n \in Stages |-> NotRun]
    /\ finalization = "-"

\* enum AgentType in declaration order, which is also the key order of
\* self.agents and of self.intent_keywords.
AgentTypes ==
    <<"route", "weather", "poi", "search", "attraction", "budget",
      "personalization">>
AgentTypeSet == {AgentTypes[i] : i \in 1 .. Len(AgentTypes)}
None == "None"

\* kwargs.get("query", ""): a text is the set of the phrases it is made of;
\* the empty text is "".
EmptyQuery == {}
\* A query that is no str (42): truthy, without a lower method.
NotAString == {"<int>"}
IsString(query) == query # NotAString

\* No response yet.
NoResponse ==
    [success |-> "-", data |-> None, message |-> "-", routed_agent |-> "-"]

\* No execute call of the router has been made.
IdleRouter ==
    [pc |-> "idle", query |-> EmptyQuery, llm_intent |-> None,
     keyword_intent |-> None, final_intent |-> None, invoked |-> <<>>,
     response |-> NoResponse]

NoResolution ==
    [query |-> EmptyQuery, llm_intent |-> None, keyword_intent |-> None,
     final_intent |-> None]

\* AgentRouter.__init__: seven fresh agent objects, the keyword table.
InitRouter ==
    /\ resolution = NoResolution
    /\ router = IdleRouter
    /\ route_log = <<>>
    /\ executions = [a \in AgentTypeSet |-> 0]

\* No execute call of the enhanced router has been made.  primary_intent is
\* the value under that key of intent_analysis, recognised the name it spells.
IdleEnhanced ==
    [pc |-> "idle", query |-> EmptyQuery, source |-> "-",
     primary_intent |-> [type |-> "NoneType", name |-> None],
     invoked |-> <<>>, response |-> NoResponse]

InitEnhanced == enhanced = IdleEnhanced

\* WorkflowManager.__init__, and no status record for the trip_plan_id.
\* cancelled_running and stages_after_cancel remember a cancel_workflow that
\* returned True while start_workflow was awaiting the run.
IdleManager ==
    [pc |-> "idle", stage |-> 0, record |-> "none", cancel_result |-> "-",
     cancelled_running |-> FALSE, stages_after_cancel |-> 0]

InitManager == manager = IdleManager

\* No registration has dropped a handler.
InitRegistry == former = {}

InitAround ==
    /\ InitAgent
    /\ InitAsyncAgent
    /\ InitPipeline
    /\ InitRegistry
    /\ InitRouter
    /\ InitEnhanced
    /\ InitManager

\* InMemoryA2AProtocol.__init__ with the message classes of message.py.
Init ==
    /\ agents = [a \in AgentNames |-> "absent"]
    /\ handlers = [a \in AgentNames |-> [x \in ActionNames |-> "none"]]
    /\ pending_requests = {}
    /\ calls = [c \in CallIds |-> FreeCall]
    /\ ncalls = 0
    /\ typeTagDefaulted = FALSE
    /\ InitAround

\* ------------------------------------------------------------ operations
\* self.agents[agent_name] = agent_instance
AgentsWith(agent_name, agent_instance) ==
    [agents EXCEPT ![agent_name] = agent_instance]

\* self.handlers[agent_name] = {}
HandlersCleared(agent_name) ==
    [handlers EXCEPT ![agent_name] = [x \in ActionNames |-> "none"]]

register_agent(agent_name, agent_instance) ==
    /\ agents' = AgentsWith(agent_name, agent_instance)
    /\ handlers' = HandlersCleared(agent_name)
    /\ UNCHANGED <<pending_requests, calls, ncalls, typeTagDefaulted, aroundBroker>>

register_handler(agent_name, action, handler) ==
    /\ handlers' = [handlers EXCEPT ![agent_name][action] = handler]
    /\ UNCHANGED <<agents, pending_requests, calls, ncalls, typeTagDefaulted, aroundBroker>>

\* send_request from its call to its first suspension or its end.
send_request(from_agent, to_agent, action, timeout) ==
    /\ ncalls < MaxCalls
    /\ ncalls' = ncalls + 1
    /\ UNCHANGED <<agents, handlers, typeTagDefaulted, aroundBroker>>
    /\ LET rid == ncalls + 1
           q == [FreeCall EXCEPT !.api = "send_request", !.mtype = "request",
                    !.pc = "running", !.from_agent = from_agent,
                    !.to_agent = to_agent, !.action = action,
                    !.timeout = timeout]
       IN  IF ~InitAccepts(RequestKwargs)
           THEN /\ calls' = [calls EXCEPT ![rid] =
                        [q EXCEPT !.pc = "done", !.result = Raised("TypeError")]]
                /\ UNCHANGED pending_requests
           ELSE \E mv \in RequestMoves(q, rid) :
                  LET qi == [q EXCEPT !.invoked = Invokes(q), !.hout = mv.how]
                  IN
                  /\ pending_requests' =
                        SlotsAfter(pending_requests \cup {rid}, rid, mv.sm)
                  /\ calls' = [calls EXCEPT ![rid] =
                        IF mv.sm = Suspended
                        THEN [qi EXCEPT !.pc = "in_handler"]
                        ELSE AfterSendMessage(qi, rid, mv.sm)]

\* send_notification from its call to its first suspension or its end.
send_notification(from_agent, to_agent, action) ==
    /\ ncalls < MaxCalls
    /\ ncalls' = ncalls + 1
    /\ UNCHANGED <<agents, handlers, pending_requests, typeTagDefaulted, aroundBroker>>
    /\ LET rid == ncalls + 1
           q == [FreeCall EXCEPT !.api = "send_notification",
                    !.mtype = "notification", !.pc = "running",
                    !.from_agent = from_agent, !.to_agent = to_agent,
                    !.action = action]
       IN  IF ~InitAccepts(NotificationKwargs)
           THEN calls' = [calls EXCEPT ![rid] =
                    [q EXCEPT !.pc = "done", !.result = Raised("TypeError")]]
           ELSE \E mv \in NotificationMoves(q) :
                  calls' = [calls EXCEPT ![rid] =
                    IF mv.sm = Suspended
                    THEN [q EXCEPT !.pc = "in_handler", !.invoked = Invokes(q)]
                    ELSE [q EXCEPT !.pc = "done", !.result = mv.sm,
                                   !.invoked = Invokes(q), !.hout = mv.how]]

\* The messages a caller of send_message can hand in: built by the caller with
\* message_type given (AgentMessage.from_dict does so), hence well formed.
Messages ==
    [mtype : {"request", "notification"}, from_agent : Senders,
     to_agent : AgentNames, action : ActionNames, orig : {NoId}]
    \cup
    [mtype : {"response"}, from_agent : {"weather"}, to_agent : AgentNames,
     action : {"plan"}, orig : CallIds \cup {NoId}]

\* The ResponseMessage a caller hands to send_message.
AsResponse(m) ==
    ResponseMessage(m.from_agent, m.to_agent, m.action, TRUE, "None", m.orig)

\* _handle_response (lines 125-131): the keys of pending_requests afterwards.
handle_response_slots(response) ==
    IF response.original_request_id \in pending_requests
    THEN pending_requests \ {response.original_request_id}
    ELSE pending_requests

\* A resolution that sets every unset Future, whatever the key.
handle_response_future_AnyWaiter(response, c) ==
    IF /\ response.original_request_id \in pending_requests
       /\ calls[c].future = Unset
    THEN response
    ELSE calls[c].future

\* _handle_response (lines 125-131): the Future of call c afterwards.
handle_response_future(response, c) ==
    IF /\ response.original_request_id \in pending_requests
       /\ response.original_request_id = c
       /\ calls[c].future = Unset
    THEN response
    ELSE calls[c].future

\* send_message called directly, from its call to its first suspension or end.
send_message(message) ==
    /\ ncalls < MaxCalls
    /\ ncalls' = ncalls + 1
    /\ UNCHANGED <<agents, handlers, typeTagDefaulted, aroundBroker>>
    /\ LET rid == ncalls + 1
           q == [FreeCall EXCEPT !.api = "send_message",
                    !.mtype = message.mtype, !.pc = "running",
                    !.from_agent = message.from_agent,
                    !.to_agent = message.to_agent,
                    !.action = message.action, !.orig = message.orig]
           end(mv) == [q EXCEPT !.pc = "done", !.result = mv.sm,
                                !.invoked = Invokes(q), !.hout = mv.how]
           susp == [q EXCEPT !.pc = "in_handler", !.invoked = Invokes(q)]
       IN  CASE message.mtype = "request" ->
                  /\ \E mv \in RequestMoves(q, rid) :
                        calls' = [calls EXCEPT ![rid] =
                            IF mv.sm = Suspended THEN susp ELSE end(mv)]
                  /\ UNCHANGED pending_requests
             [] message.mtype = "notification" ->
                  /\ \E mv \in NotificationMoves(q) :
                        calls' = [calls EXCEPT ![rid] =
                            IF mv.sm = Suspended THEN susp ELSE end(mv)]
                  /\ UNCHANGED pending_requests
             [] OTHER ->
                  IF agents[message.to_agent] = "absent"
                  THEN /\ calls' = [calls EXCEPT ![rid] =
                              [q EXCEPT !.pc = "done", !.result = ReturnedNone]]
                       /\ UNCHANGED pending_requests
                  ELSE /\ pending_requests' =
                              handle_response_slots(AsResponse(message))
                       /\ calls' = [c \in CallIds |->
                            IF c = rid
                            THEN [q EXCEPT !.pc = "done", !.result = ReturnedNone]
                            ELSE [calls[c] EXCEPT !.future =
                                    handle_response_future(AsResponse(message), c)]]

\* The handler a call is suspended in ends with o; the call runs on to its
\* next suspension or its end.
handler_done(c, o) ==
    /\ calls[c].pc = "in_handler"
    /\ UNCHANGED <<agents, handlers, ncalls, typeTagDefaulted, aroundBroker>>
    /\ LET q == [calls[c] EXCEPT !.hout = o.how]
           sm == IF q.mtype = "request" THEN HandledResult(q, c, o)
                 ELSE ReturnedNone
       IN  IF q.api = "send_request"
           THEN /\ calls' = [calls EXCEPT ![c] = AfterSendMessage(q, c, sm)]
                /\ pending_requests' = SlotsAfter(pending_requests, c, sm)
           ELSE /\ calls' = [calls EXCEPT ![c] =
                        [q EXCEPT !.pc = "done", !.result = sm]]
                /\ UNCHANGED pending_requests

\* The Future a send_request waits on has a result: the wait ends with it
\* (lines 168-172).
future_resolved(c) ==
    /\ calls[c].pc = "await_future"
    /\ calls[c].future # Unset
    /\ calls' = [calls EXCEPT ![c] =
            [@ EXCEPT !.pc = "done", !.result = Returned(calls[c].future)]]
    /\ UNCHANGED <<agents, handlers, pending_requests, ncalls, typeTagDefaulted, aroundBroker>>

\* asyncio.wait_for gives up on the Future: only when timeout is truthy
\* (line 167) and the Future has no result yet (lines 174-184).
wait_timeout(c) ==
    /\ calls[c].pc = "await_future"
    /\ calls[c].timeout = "positive"
    /\ calls[c].future = Unset
    /\ pending_requests' = pending_requests \ {c}
    /\ calls' = [calls EXCEPT ![c] =
            [@ EXCEPT !.pc = "done", !.result =
                IF InitAccepts(ResponseKwargs)
                THEN Returned(ResponseMessage(calls[c].to_agent,
                        calls[c].from_agent, calls[c].action, FALSE,
                        "Request timeout", c))
                ELSE Raised("TypeError")]]
    /\ UNCHANGED <<agents, handlers, ncalls, typeTagDefaulted, aroundBroker>>

\* ------------------------------------------------------- specifications
\* The broker with the message classes as message.py declares them.  Every
\* constructor call of a2a_protocol.py then raises, so no send_request reaches
\* its wait: future_resolved and wait_timeout are never enabled here.
Next ==
    \/ \E a \in AgentNames, i \in Insts : register_agent(a, i)
    \/ \E a \in AgentNames, x \in ActionNames, h \in HandlerIds :
            register_handler(a, x, h)
    \/ \E f \in Senders, t \in AgentNames, x \in ActionNames,
          tmo \in Timeouts : send_request(f, t, x, tmo)
    \/ \E f \in Senders, t \in AgentNames, x \in ActionNames :
            send_notification(f, t, x)
    \/ \E m \in Messages : send_message(m)
    \/ \E c \in CallIds, o \in HandlerOutcomes : handler_done(c, o)

Spec == Init /\ [][Next]_vars

\* The control flow of a2a_protocol.py behind its constructor calls: the same
\* operations, started in the state in which the message classes accept a call
\* that names no message_type (the variant's __post_init__ sets the tag).
InitBody ==
    /\ agents = [a \in AgentNames |-> "absent"]
    /\ handlers = [a \in AgentNames |-> [x \in ActionNames |-> "none"]]
    /\ pending_requests = {}
    /\ calls = [c \in CallIds |-> FreeCall]
    /\ ncalls = 0
    /\ typeTagDefaulted = TRUE
    /\ InitAround

NextBody ==
    \/ \E a \in AgentNames, i \in Insts : register_agent(a, i)
    \/ \E a \in AgentNames, x \in ActionNames, h \in HandlerIds :
            register_handler(a, x, h)
    \/ \E f \in Senders, t \in AgentNames, x \in ActionNames,
          tmo \in Timeouts : send_request(f, t, x, tmo)
    \/ \E f \in Senders, t \in AgentNames, x \in ActionNames :
            send_notification(f, t, x)
    \/ \E m \in Messages : send_message(m)
    \/ \E c \in CallIds, o \in HandlerOutcomes : handler_done(c, o)
    \/ \E c \in CallIds : future_resolved(c)
    \/ \E c \in CallIds : wait_timeout(c)

SpecBody == InitBody /\ [][NextBody]_vars

\* The event loop runs a timer that is due and a task whose Future has a
\* result; nothing makes a handler finish.
FairSpecBody ==
    /\ SpecBody
    /\ WF_vars(\E c \in CallIds : wait_timeout(c))
    /\ WF_vars(\E c \in CallIds : future_resolved(c))


\* ------------------------------------------------------- agent base class
\* The handler table after the body of register_handler has run.
HandlersWith(agent_name, action, handler) ==
    [handlers EXCEPT ![agent_name][action] = handler]

\* Calling an `async def` function builds a coroutine object; its body runs
\* only when that object is awaited.
CoroutineCall(awaited, before, after) == IF awaited THEN after ELSE before

\* BaseAgent.register_action_handler: wraps fn into async_handler and calls
\* protocol.register_handler(name, action, async_handler) without await.  The
\* caller is an agent object, whose __init__ has registered its name.
register_action_handler(agent_name, action) ==
    /\ agents[agent_name] # "absent"
    /\ wrapped' = wrapped \cup {<<agent_name, action>>}
    /\ handlers' = CoroutineCall(FALSE, handlers,
                        HandlersWith(agent_name, action, "async_handler"))
    /\ UNCHANGED <<agents, pending_requests, calls, ncalls, typeTagDefaulted>>
    /\ UNCHANGED <<status, execution_count, total_execution_time, execs, async_agent, pipeVars, serviceVars>>

\* The AgentResponse execute builds in its except branch.
FailureResponse == "AgentResponse(success=False, message=<prefix> + str(e))"
\* The value _execute_async returned.
TaskResult == "result of _execute_async"

\* Statistics after a call that took d seconds ended; `counted` tells whether
\* the branch the call ended in has the two `+=` statements.
CountAfter(counted) == IF counted THEN execution_count + 1 ELSE execution_count
TotalAfter(counted, d) ==
    IF counted THEN total_execution_time + d ELSE total_execution_time

\* execute up to its await of the task logic: start_time, status PROCESSING.
execute_start(e) ==
    /\ execs[e].pc = "free"
    /\ \A k \in ExecIds : k < e => execs[k].pc # "free"
    /\ status' = "processing"
    /\ execs' = [execs EXCEPT ![e] = [@ EXCEPT !.pc = "in_task"]]
    /\ UNCHANGED <<wrapped, execution_count, total_execution_time, brokerVars, async_agent, pipeVars, serviceVars>>

\* The task logic returned after d seconds: the rest of the try block.
execute_return(e, d) ==
    /\ execs[e].pc = "in_task"
    /\ status' = "completed"
    /\ execution_count' = CountAfter(TRUE)
    /\ total_execution_time' = TotalAfter(TRUE, d)
    /\ execs' = [execs EXCEPT ![e] =
            [pc |-> "done", outcome |-> "returned", result |-> TaskResult,
             elapsed |-> d, left_status |-> "completed"]]
    /\ UNCHANGED <<wrapped, brokerVars, async_agent, pipeVars, serviceVars>>

\* The task logic raised an Exception after d seconds: the except block.
execute_raise(e, d) ==
    /\ execs[e].pc = "in_task"
    /\ status' = "error"
    /\ execution_count' = CountAfter(FALSE)
    /\ total_execution_time' = TotalAfter(FALSE, d)
    /\ execs' = [execs EXCEPT ![e] =
            [pc |-> "done", outcome |-> "raised", result |-> FailureResponse,
             elapsed |-> d, left_status |-> "error"]]
    /\ UNCHANGED <<wrapped, brokerVars, async_agent, pipeVars, serviceVars>>

\* get_capabilities: the mean, as an exact fraction <<numerator, denominator>>.
average_execution_time ==
    IF execution_count > 0 THEN <<total_execution_time, execution_count>>
    ELSE <<0, 1>>

NextAgent ==
    \/ \E a \in AgentNames, i \in Insts : register_agent(a, i)
    \/ \E a \in AgentNames, x \in ActionNames, h \in HandlerIds :
            register_handler(a, x, h)
    \/ \E a \in AgentNames, x \in ActionNames : register_action_handler(a, x)
    \/ \E e \in ExecIds : execute_start(e)
    \/ \E e \in ExecIds, d \in Durations : execute_return(e, d)
    \/ \E e \in ExecIds, d \in Durations : execute_raise(e, d)

\* Agent objects on the broker: their registrations and their execute calls.
SpecAgent == Init /\ [][NextAgent]_vars


\* ------------------------------------------------- AsyncAgent (semaphore)
\* The execute calls on one AsyncAgent are alike, so the object keeps their
\* numbers: waiting in acquire, woken by a release but not yet resumed, inside
\* the task logic, and ended either way.

\* asyncio.Semaphore.locked(): no free slot, or somebody queued ahead.
Locked(a) == a.value = 0 \/ a.waiting + a.woken > 0

\* _execute_with_timing up to its await of the task logic.
EnterTiming(a) == [a EXCEPT !.status = "processing", !.inside = @ + 1]

\* asyncio.Semaphore._wake_up_next(): the first waiter not yet woken takes a
\* slot and is made ready to run.
WakeUpNext(a) ==
    IF a.waiting > 0
    THEN [a EXCEPT !.value = @ - 1, !.waiting = @ - 1, !.woken = @ + 1]
    ELSE a

\* asyncio.Semaphore.release(): one more free slot, handed at once to the
\* first waiter when there is one.
Release(a) == WakeUpNext([a EXCEPT !.value = @ + 1])

\* The end of acquire in a woken waiter: it leaves the queue and passes a
\* slot that is still free to the next waiter.
Resumed(a) ==
    LET b == [a EXCEPT !.woken = @ - 1]
    IN  IF b.value > 0 THEN WakeUpNext(b) ELSE b

\* A context manager that gave the slot back on a normal exit only.
ExitSemaphore_ReturnOnly(a, how) == IF how = "returned" THEN Release(a) ELSE a

\* `async with self._semaphore` leaves its block: __aexit__ releases whether
\* the block ended by a return or by an exception.
ExitSemaphore(a, how) == Release(a)

\* execute is called: acquire without waiting and enter the task logic, or
\* queue on the semaphore.
async_execute ==
    /\ async_agent.issued < MaxBurst
    /\ async_agent' =
         LET a == [async_agent EXCEPT !.issued = @ + 1]
         IN  IF Locked(a) THEN [a EXCEPT !.waiting = @ + 1]
             ELSE EnterTiming([a EXCEPT !.value = @ - 1])
    /\ UNCHANGED <<brokerVars, agentVars, pipeVars, serviceVars>>

\* A woken waiter runs again: acquire returns and the call enters the task logic.
async_execute_resume ==
    /\ async_agent.woken > 0
    /\ async_agent' = EnterTiming(Resumed(async_agent))
    /\ UNCHANGED <<brokerVars, agentVars, pipeVars, serviceVars>>

\* The task logic of one call returned after d seconds.
async_execute_return(d) ==
    /\ async_agent.inside > 0
    /\ async_agent' =
         ExitSemaphore([async_agent EXCEPT !.inside = @ - 1, !.returned = @ + 1,
                            !.status = "completed",
                            !.execution_count = @ + 1,
                            !.total_execution_time = @ + d], "returned")
    /\ UNCHANGED <<brokerVars, agentVars, pipeVars, serviceVars>>

\* The task logic of one call raised: _execute_with_timing returns the failure
\* AgentResponse, the block ends.
async_execute_raise ==
    /\ async_agent.inside > 0
    /\ async_agent' =
         ExitSemaphore([async_agent EXCEPT !.inside = @ - 1, !.raised = @ + 1,
                            !.status = "error"], "raised")
    /\ UNCHANGED <<brokerVars, agentVars, pipeVars, serviceVars>>

NextAsync ==
    \/ async_execute
    \/ async_execute_resume
    \/ \E d \in Durations : async_execute_return(d)
    \/ async_execute_raise

\* A burst of execute calls on one AsyncAgent object.
SpecAsync == Init /\ [][NextAsync]_vars


\* ------------------------------------------- TravelPlanningWorkflow.run
\* One run of the pipeline.  The run suspends where it awaits a stage's
\* execute and where _finalize_plan awaits the text completion; each action is
\* the stretch of run between two of these.

\* The state mapping run builds before the loop ("kai shi" = started).
StateAtStart ==
    [current_step |-> "started", completed_steps |-> <<>>, failed_steps |-> <<>>,
     results |-> [k \in ResultKeys |-> "None"], final_plan |-> "None",
     plan_status |-> "processing", error_message |-> "None",
     start_time |-> "set", end_time |-> "None", total_execution_time |-> "None"]

\* What the execute of a stage hands back when it returns: key/value pairs
\* for result slots, the value named after the stage that produced it.  A
\* stage returns nothing, its own slot, or its own slot and the first slot.
StageReturns(node_name) ==
    { [k \in {} |-> node_name],
      [k \in {ResultKey(node_name)} |-> node_name],
      [k \in {ResultKey(node_name), ResultKey(node_order[1])} |-> node_name] }

\* What the text completion answers when it answers.
CompletionTexts == {"plan text", ""}
\* str(e) of what _finalize_plan caught.
FinalizeErrors == {"completion failed"}

\* dict.update on the result slots.
Update(results, pairs) ==
    [k \in ResultKeys |-> IF k \in DOMAIN pairs THEN pairs[k] ELSE results[k]]

Position(node_name) == CHOOSE i \in 1 .. Len(node_order) : node_order[i] = node_name

\* A loop that left out the stage after the one that just ended.
NextStep_Skip(node_name) ==
    IF Position(node_name) + 1 < Len(node_order)
    THEN node_order[Position(node_name) + 2]
    ELSE "finalize"

\* The for loop: the stage after node_name, or _finalize_plan after the last.
NextStep(node_name) ==
    IF Position(node_name) < Len(node_order)
    THEN node_order[Position(node_name) + 1]
    ELSE "finalize"

Start(step) == [ev |-> "start", step |-> step]
End(step)   == [ev |-> "end", step |-> step]

\* An except clause that only logged.
CaptureFailure_LogOnly(st, node_name) == st

\* The except clause of the loop body.
CaptureFailure(st, node_name) ==
    [st EXCEPT !.failed_steps = Append(@, node_name)]

\* The loop body after execute returned: state.update(result), a log line.
MergeResult(st, node_name, pairs) ==
    [st EXCEPT !.results = Update(@, pairs)]

\* The mapping _finalize_plan returns from its try block.
FinalizeSuccess(st, text) ==
    [st EXCEPT !.final_plan = text, !.plan_status = "completed",
               !.end_time = "set", !.total_execution_time = "set",
               !.current_step = "plan completed"]

\* An except block that recorded the message and left the status alone.
FinalizeFailure_StatusKept(st, msg) == [st EXCEPT !.error_message = msg]

\* The mapping _finalize_plan returns from its except block.
FinalizeFailure(st, msg) ==
    [st EXCEPT !.plan_status = "failed", !.error_message = msg,
               !.current_step = "plan failed"]

\* run is called: the state is built and the first stage is awaited.
run_start ==
    /\ run_pc = "idle"
    /\ state' = StateAtStart
    /\ run_pc' = node_order[1]
    /\ trace' = <<Start(node_order[1])>>
    /\ UNCHANGED <<stage_results, finalization, brokerVars, agentVars, async_agent, serviceVars>>

\* The awaited execute returned `pairs`; run merges them and goes on.
stage_returned(pairs) ==
    /\ run_pc \in Stages
    /\ pairs \in StageReturns(run_pc)
    /\ state' = MergeResult(state, run_pc, pairs)
    /\ stage_results' = [stage_results EXCEPT ![run_pc] =
                            [how |-> "returned", pairs |-> pairs]]
    /\ run_pc' = NextStep(run_pc)
    /\ trace' = trace \o <<End(run_pc), Start(NextStep(run_pc))>>
    /\ UNCHANGED <<finalization, brokerVars, agentVars, async_agent, serviceVars>>

\* The awaited execute raised; run records the stage and goes on.
stage_raised ==
    /\ run_pc \in Stages
    /\ state' = CaptureFailure(state, run_pc)
    /\ stage_results' = [stage_results EXCEPT ![run_pc] =
                            [how |-> "raised", pairs |-> <<>>]]
    /\ run_pc' = NextStep(run_pc)
    /\ trace' = trace \o <<End(run_pc), Start(NextStep(run_pc))>>
    /\ UNCHANGED <<finalization, brokerVars, agentVars, async_agent, serviceVars>>

\* The completion answered: _finalize_plan returns, run merges and returns.
finalize_returned(text) ==
    /\ run_pc = "finalize"
    /\ state' = FinalizeSuccess(state, text)
    /\ finalization' = "succeeded"
    /\ run_pc' = "returned"
    /\ trace' = Append(trace, End("finalize"))
    /\ UNCHANGED <<stage_results, brokerVars, agentVars, async_agent, serviceVars>>

\* Something in the try block of _finalize_plan raised.
finalize_raised(msg) ==
    /\ run_pc = "finalize"
    /\ state' = FinalizeFailure(state, msg)
    /\ finalization' = "failed"
    /\ run_pc' = "returned"
    /\ trace' = Append(trace, End("finalize"))
    /\ UNCHANGED <<stage_results, brokerVars, agentVars, async_agent, serviceVars>>

AllStageReturns == UNION {StageReturns(n) : n \in Stages}

NextPipeline ==
    \/ run_start
    \/ \E pairs \in AllStageReturns : stage_returned(pairs)
    \/ stage_raised
    \/ \E text \in CompletionTexts : finalize_returned(text)
    \/ \E msg \in FinalizeErrors : finalize_raised(msg)

\* One run of the workflow object.
SpecPipeline == Init /\ [][NextPipeline]_vars

\* ------------------------------------------- agent objects in the registry
\* The agent objects that can be constructed under one name.
Instances == Insts \cup {"i2"}

\* The actions of agent_name that have a handler.
HandledActions(agent_name) ==
    {x \in ActionNames : handlers[agent_name][x] # "none"}

\* BaseAgent.__init__: the new object registers itself under its name
\* (self.protocol.register_agent(self.name, self)).  former remembers the
\* handlers the registration dropped.
construct_agent(name, instance) ==
    /\ agents' = AgentsWith(name, instance)
    /\ handlers' = HandlersCleared(name)
    /\ former' = former \cup {<<name, x>> : x \in HandledActions(name)}
    /\ UNCHANGED <<pending_requests, calls, ncalls, typeTagDefaulted>>
    /\ UNCHANGED <<agentVars, async_agent, pipeVars, routerVars, enhanced, manager>>

\* The Requests among the messages a caller can hand to send_message.
Requests == {m \in Messages : m.mtype = "request"}

NextRegistry ==
    \/ \E a \in AgentNames, i \in Instances : construct_agent(a, i)
    \/ \E a \in AgentNames, x \in ActionNames, h \in HandlerIds :
            register_handler(a, x, h)
    \/ \E m \in Requests : send_message(m)
    \/ \E c \in CallIds, o \in HandlerOutcomes : handler_done(c, o)

SpecRegistry == Init /\ [][NextRegistry]_vars

\* The same operations with message classes that accept the constructor calls.
SpecRegistryBody == InitBody /\ [][NextRegistry]_vars


\* ------------------------------------------------- requests in flight
\* The Responses a caller can hand to send_message.
Responses == {m \in Messages : m.mtype = "response"}

\* send_message on a Response addressed to a registered agent, by a caller
\* whose own call (it gets None back) is not recorded: _handle_response.
\* Without a slot for its original_request_id the delivery changes nothing.
deliver_response(m) ==
    /\ agents[m.to_agent] # "absent"
    /\ m.orig \in pending_requests
    /\ pending_requests' = handle_response_slots(AsResponse(m))
    /\ calls' = [c \in CallIds |->
            [calls[c] EXCEPT !.future =
                handle_response_future(AsResponse(m), c)]]
    /\ UNCHANGED <<agents, handlers, ncalls, typeTagDefaulted, aroundBroker>>

\* Every Response of Messages is for the action "plan": so are the requests
\* of this component.  A timeout of 0 is falsy like None (line 167), and a
\* Response is delivered whatever registered agent it is addressed to; one
\* of each is kept.
NextInFlight ==
    \/ \E a \in AgentNames, i \in Insts : register_agent(a, i)
    \/ \E a \in AgentNames, h \in HandlerIds : register_handler(a, "plan", h)
    \/ \E f \in Senders, t \in AgentNames, tmo \in {"None", "positive"} :
            send_request(f, t, "plan", tmo)
    \/ \E c \in CallIds, o \in HandlerOutcomes : handler_done(c, o)
    \/ \E c \in CallIds : future_resolved(c)
    \/ \E c \in CallIds : wait_timeout(c)
    \/ \E m \in {r \in Responses : r.to_agent = "route"} : deliver_response(m)

\* send_request calls and the Responses delivered for them, with message
\* classes that accept the constructor calls.
SpecInFlight == InitBody /\ [][NextInFlight]_vars

\* ------------------------------------------------------------ AgentRouter
\* self.intent_keywords (router.py, lines 52-80), each keyword by its reading.
intent_keywords ==
    [route |-> <<"luxian", "daohang", "lujing", "zenmezou", "cong", "dao",
                 "tujing", "guihualuxian", "luxianguihua", "daohang",
                 "lujingguihua", "molvluxian">>,
     weather |-> <<"tianqi", "wendu", "xiayu", "xiaxue", "fengli", "yubao",
                   "qixiang", "qihou", "qingtian", "yintian", "baoyu",
                   "dafeng", "nengjiandu">>,
     poi |-> <<"canting", "jiudian", "zhusu", "jiayouzhan", "xiuche",
               "yiyuan", "yaodian", "yinhang", "ATM", "meishi", "chifan",
               "zhusu", "jiayou", "weixiu", "yiliao">>,
     search |-> <<"zhengce", "xianxing", "jinxing", "guiding", "fagui",
                  "lukuang", "shigong", "fenglu", "yeshengdongwu", "anquan",
                  "zhuangbei", "tuijian">>,
     attraction |-> <<"jingdian", "jingqu", "lvyou", "fengjing", "mingsheng",
                      "guji", "gongyuan", "bowuguan", "tuijian", "haowan",
                      "zhidequ", "daka">>,
     budget |-> <<"yusuan", "feiyong", "huafei", "chengben", "duoshaoqian",
                  "jiage", "shoufei", "kaixiao", "jingji", "shengqian",
                  "huafei", "yusuanguihua">>,
     personalization |-> <<"pianhao", "xihuan", "xiguan", "gexinghua",
                           "dingzhi", "geren", "wode", "pianhaoshezhi">>]

\* The phrases the queries are made of.
Phrases ==
    {"luxian", "luxianguihua", "daohang", "zenmezou", "tianqi", "wendu",
     "canting", "ATM", "tuijian", "nihao"}

\* str.lower() on one phrase: only Latin capitals change.
Lower(phrase) == IF phrase = "ATM" THEN "atm" ELSE phrase

\* query.lower()
QueryLower(query) == {Lower(p) : p \in query}

\* The texts that occur in a phrase as substrings.
Substrings(phrase) ==
    IF phrase = "luxianguihua" THEN {"luxian", "luxianguihua"} ELSE {phrase}

\* keyword in text
Occurs(keyword, text) == \E p \in text : keyword \in Substrings(p)

\* any(word in text for word in words)
AnyOccurs(words, text) == \E w \in words : Occurs(w, text)

\* The score of one agent type: one for every entry of its keyword list that
\* occurs in query_lower.
Score(agent_type, query_lower) ==
    Cardinality({i \in 1 .. Len(intent_keywords[agent_type]) :
                    Occurs(intent_keywords[agent_type][i], query_lower)})

\* max(intent_scores, key=intent_scores.get): the keys in insertion order,
\* a later key replaces the best one only when its score is greater.
RECURSIVE MaxScore(_, _, _)
MaxScore(i, best, query_lower) ==
    IF i > Len(AgentTypes) THEN best
    ELSE LET a == AgentTypes[i]
             better == /\ Score(a, query_lower) > 0
                       /\ \/ best = None
                          \/ Score(a, query_lower) > Score(best, query_lower)
         IN  MaxScore(i + 1, IF better THEN a ELSE best, query_lower)

\* A classification that skips the agents that have executed before.
_classify_intent_with_keywords_Fresh(query) ==
    LET best == MaxScore(1, None, QueryLower(query))
    IN  IF best # None /\ executions[best] > 0 THEN None ELSE best

_classify_intent_with_keywords(query) == MaxScore(1, None, QueryLower(query))

\* What the model call of _classify_intent_with_llm can end with: a text or
\* an exception.
LlmTexts == {"route", "Weather ", "poi", "no idea"}
LlmOutcomes == [kind : {"text"}, text : LlmTexts]
                  \cup {[kind |-> "exception", text |-> "-"]}

\* text.strip().lower()
StripLower(text) == IF text = "Weather " THEN "weather" ELSE text

\* intent_mapping.get(intent_text), None after an exception.
_classify_intent_with_llm(outcome) ==
    IF outcome.kind = "exception" THEN None
    ELSE IF StripLower(outcome.text) \in AgentTypeSet
    THEN StripLower(outcome.text)
    ELSE None

_apply_special_rules(query) ==
    LET query_lower == QueryLower(query)
    IN  IF AnyOccurs({"luxian", "daohang", "zenmezou"}, query_lower)
        THEN IF AnyOccurs({"tianqi", "xiayu", "wendu"}, query_lower)
             THEN "route"
             ELSE IF AnyOccurs({"yusuan", "feiyong", "huafei"}, query_lower)
             THEN "route"
             ELSE "route"
        ELSE "route"

\* A resolution that prefers the keyword result.
_resolve_intent_KeywordFirst(llm_intent, keyword_intent, query) ==
    IF keyword_intent # None THEN keyword_intent
    ELSE IF llm_intent # None THEN llm_intent
    ELSE _apply_special_rules(query)

_resolve_intent(llm_intent, keyword_intent, query) ==
    IF llm_intent = keyword_intent /\ llm_intent # None THEN llm_intent
    ELSE IF llm_intent # None THEN llm_intent
    ELSE IF keyword_intent # None THEN keyword_intent
    ELSE _apply_special_rules(query)

\* One resolution, as execute makes it (lines 108-113), for any text: the
\* first one a router object makes.
resolve(query, outcome) ==
    /\ resolution = NoResolution
    /\ resolution' =
         LET llm_intent == _classify_intent_with_llm(outcome)
             keyword_intent == _classify_intent_with_keywords(query)
         IN  [query |-> query, llm_intent |-> llm_intent,
              keyword_intent |-> keyword_intent,
              final_intent |->
                    _resolve_intent(llm_intent, keyword_intent, query)]
    /\ UNCHANGED <<router, route_log, executions>>
    /\ UNCHANGED <<brokerVars, agentVars, async_agent, pipeVars, former, enhanced, manager>>

NextResolve ==
    \E query \in (SUBSET Phrases) \ {EmptyQuery}, outcome \in LlmOutcomes :
        resolve(query, outcome)

SpecResolve == Init /\ [][NextResolve]_vars

\* The queries execute is called with.
Queries ==
    {EmptyQuery, NotAString, {"nihao"}, {"luxianguihua"}, {"tianqi"},
     {"canting"}, {"tuijian"}}

\* _create_error_response(message)
ErrorResponse(message) ==
    [success |-> FALSE, data |-> None, message |-> message,
     routed_agent |-> "-"]

\* A router that hands on the success flag of the routed result.
SuccessFlag_OfResult(nested) == nested.success

\* The success flag of the response execute builds around the routed result.
SuccessFlag(nested) == TRUE

\* _create_success_response(data=result.to_dict(), ..., metadata={...})
SuccessResponse(nested, final_intent) ==
    [success |-> SuccessFlag(nested), data |-> nested,
     message |-> "routed", routed_agent |-> final_intent]

\* A router that calls every registered agent.
Invoke_Every(invoked, final_intent) == invoked \o AgentTypes

\* agent = self.agents[final_intent]; result = await agent.execute(**kwargs)
Invoke(invoked, final_intent) == Append(invoked, final_intent)

\* What the routed agent hands back: its task logic catches every exception,
\* so it is an AgentResponse with success true or false.
AgentResults == {[success |-> TRUE], [success |-> FALSE]}

LogEntry(query, llm_intent, keyword_intent, final_intent) ==
    [query |-> query, keyword_intent |-> keyword_intent,
     no_llm |-> llm_intent = None,
     final_intent |-> IF llm_intent = None THEN final_intent ELSE "-"]

\* execute up to its first await (lines 101-108).
router_execute(query) ==
    /\ router.pc \in {"idle", "done"}
    /\ Len(route_log) < MaxRoutes
    /\ router' =
         IF query = EmptyQuery
         THEN [IdleRouter EXCEPT !.pc = "done",
                    !.response = ErrorResponse("query must not be empty")]
         ELSE [IdleRouter EXCEPT !.pc = "llm", !.query = query]
    /\ UNCHANGED <<resolution, route_log, executions>>
    /\ UNCHANGED <<brokerVars, agentVars, async_agent, pipeVars, former, enhanced, manager>>

\* The model call has ended: execute runs on to its await of the routed
\* agent, or to its end (lines 108-141).
router_llm_done(outcome) ==
    /\ router.pc = "llm"
    /\ LET llm_intent == _classify_intent_with_llm(outcome)
           keyword_intent == _classify_intent_with_keywords(router.query)
           final_intent ==
                _resolve_intent(llm_intent, keyword_intent, router.query)
       IN  IF ~IsString(router.query)
           THEN /\ router' = [router EXCEPT !.pc = "done",
                        !.llm_intent = llm_intent,
                        !.response = ErrorResponse("routing failed: no lower")]
                /\ UNCHANGED route_log
           ELSE /\ route_log' = Append(route_log,
                        LogEntry(router.query, llm_intent, keyword_intent,
                                 final_intent))
                /\ router' =
                     IF final_intent \in AgentTypeSet
                     THEN [router EXCEPT !.pc = "agent",
                                !.llm_intent = llm_intent,
                                !.keyword_intent = keyword_intent,
                                !.final_intent = final_intent,
                                !.invoked = Invoke(@, final_intent)]
                     ELSE [router EXCEPT !.pc = "done",
                                !.llm_intent = llm_intent,
                                !.keyword_intent = keyword_intent,
                                !.final_intent = final_intent,
                                !.response =
                                    ErrorResponse("intent not recognised")]
    /\ UNCHANGED <<resolution, executions>>
    /\ UNCHANGED <<brokerVars, agentVars, async_agent, pipeVars, former, enhanced, manager>>

\* The routed agent's execute has returned (lines 121-135).
router_agent_returned(nested) ==
    /\ router.pc = "agent"
    /\ router' = [router EXCEPT !.pc = "done",
                    !.response = SuccessResponse(nested, router.final_intent)]
    /\ executions' = [executions EXCEPT ![router.final_intent] = @ + 1]
    /\ UNCHANGED <<resolution, route_log>>
    /\ UNCHANGED <<brokerVars, agentVars, async_agent, pipeVars, former, enhanced, manager>>

NextRouter ==
    \/ \E query \in Queries : router_execute(query)
    \/ \E outcome \in LlmOutcomes : router_llm_done(outcome)
    \/ \E nested \in AgentResults : router_agent_returned(nested)

SpecRouter == Init /\ [][NextRouter]_vars

\* ---------------------------------------------------- EnhancedAgentRouter
\* What the model call of _intelligent_intent_recognition can end with: an
\* exception, a text that is no JSON, a JSON object whose primary_intent
\* spells an agent name, a JSON text that is no object.
EnhancedAnswers ==
    {[kind |-> k, name |-> "-"] : k \in {"exception", "not json", "json list"}}
    \cup [kind : {"json object"}, name : AgentTypeSet]

\* _fallback_intent_recognition: the same table and the same scoring as
\* AgentRouter, the route agent when no keyword occurs; the value is a member
\* of AgentType.
_fallback_intent_recognition(query) ==
    LET best == MaxScore(1, None, QueryLower(query))
    IN  [type |-> "AgentType", name |-> IF best = None THEN "route" ELSE best]

\* _intelligent_intent_recognition: json.loads(intent_result) handed back as
\* it is, so the primary_intent of a parsed answer is a str; the fallback
\* after JSONDecodeError or any other exception.
_intelligent_intent_recognition(query, answer) ==
    IF answer.kind = "json object"
    THEN [source |-> "json", primary_intent |-> [type |-> "str", name |-> answer.name]]
    ELSE IF answer.kind = "json list"
    THEN [source |-> "json", primary_intent |-> [type |-> "no dict", name |-> None]]
    ELSE [source |-> "fallback",
          primary_intent |-> _fallback_intent_recognition(query)]

\* primary_intent in self.agents: the keys are members of AgentType, and a
\* str is equal to none of them.
InAgents(primary_intent) ==
    primary_intent.type = "AgentType" /\ primary_intent.name \in AgentTypeSet

\* execute up to its first await (lines 233-244).
enhanced_execute(query) ==
    /\ enhanced.pc \in {"idle", "done"}
    /\ enhanced' =
         IF query = EmptyQuery
         THEN [IdleEnhanced EXCEPT !.pc = "done",
                    !.response = ErrorResponse("query must not be empty")]
         ELSE [IdleEnhanced EXCEPT !.pc = "llm", !.query = query]
    /\ UNCHANGED <<brokerVars, agentVars, async_agent, pipeVars, former, routerVars, manager>>

\* The model call has ended: execute runs on to its await of the routed
\* agent, or to its end (lines 244-280).  intent_analysis.get raises when the
\* parsed answer is no dict.
enhanced_llm_done(answer) ==
    /\ enhanced.pc = "llm"
    /\ LET intent_analysis ==
                _intelligent_intent_recognition(enhanced.query, answer)
           primary_intent == intent_analysis.primary_intent
           e == [enhanced EXCEPT !.source = intent_analysis.source,
                                 !.primary_intent = primary_intent]
       IN  enhanced' =
             IF primary_intent.type = "no dict"
             THEN [e EXCEPT !.pc = "done",
                      !.response = ErrorResponse("smart routing failed: no get")]
             ELSE IF InAgents(primary_intent)
             THEN [e EXCEPT !.pc = "agent",
                      !.invoked = Invoke(@, primary_intent.name)]
             ELSE [e EXCEPT !.pc = "done",
                      !.response = ErrorResponse("intent not recognised")]
    /\ UNCHANGED <<brokerVars, agentVars, async_agent, pipeVars, former, routerVars, manager>>

\* The routed agent's execute has returned (lines 260-273).
enhanced_agent_returned(nested) ==
    /\ enhanced.pc = "agent"
    /\ enhanced' = [enhanced EXCEPT !.pc = "done",
            !.response = SuccessResponse(nested, enhanced.primary_intent.name)]
    /\ UNCHANGED <<brokerVars, agentVars, async_agent, pipeVars, former, routerVars, manager>>

\* The queries the enhanced router is called with: the empty one and one
\* per phrase.
EnhancedQueries == {q \in SUBSET Phrases : Cardinality(q) <= 1}

NextEnhanced ==
    \/ \E query \in EnhancedQueries : enhanced_execute(query)
    \/ \E answer \in EnhancedAnswers : enhanced_llm_done(answer)
    \/ \E nested \in AgentResults : enhanced_agent_returned(nested)

SpecEnhanced == Init /\ [][NextEnhanced]_vars

\* -------------------------------------------------------- WorkflowManager
\* update_trip_plan_status(trip_plan_id, status=...): the status record takes
\* the new status; when the store raises it is left as it was.
update_trip_plan_status(record, new_status, stored) ==
    IF stored THEN new_status ELSE record

\* start_workflow up to its await of self.workflow.run (lines 35-55): the
\* record is created when missing and set to "processing".
start_workflow ==
    /\ manager.pc = "idle"
    /\ manager' = [manager EXCEPT !.pc = "running",
            !.record = update_trip_plan_status(@, "processing", TRUE)]
    /\ UNCHANGED <<brokerVars, agentVars, async_agent, pipeVars, former, routerVars, enhanced>>

\* The run the manager awaits goes through its next stage; nothing in run
\* reads the status record.
workflow_stage ==
    /\ manager.pc = "running"
    /\ manager.stage < Len(node_order)
    /\ manager' = [manager EXCEPT !.stage = @ + 1,
            !.stages_after_cancel =
                IF manager.cancelled_running THEN @ + 1 ELSE @]
    /\ UNCHANGED <<brokerVars, agentVars, async_agent, pipeVars, former, routerVars, enhanced>>

\* run has returned its state: _handle_success or _handle_failure writes the
\* status (lines 58-63, 70-110); a store that raises is logged.
workflow_returned(plan_status, stored) ==
    /\ manager.pc = "running"
    /\ manager.stage = Len(node_order)
    /\ manager' = [manager EXCEPT !.pc = "returned",
            !.record = update_trip_plan_status(@,
                IF plan_status = "completed" THEN "completed" ELSE "failed",
                stored)]
    /\ UNCHANGED <<brokerVars, agentVars, async_agent, pipeVars, former, routerVars, enhanced>>

\* The awaited run raised: _handle_failure, then the exception goes on to the
\* caller (lines 65-68).
workflow_raised(stored) ==
    /\ manager.pc = "running"
    /\ manager' = [manager EXCEPT !.pc = "raised",
            !.record = update_trip_plan_status(@, "failed", stored)]
    /\ UNCHANGED <<brokerVars, agentVars, async_agent, pipeVars, former, routerVars, enhanced>>

\* cancel_workflow (lines 131-151), for an id that has a status record: True
\* when the status was written, False when the store raised.
cancel_workflow(stored) ==
    /\ manager.record # "none"
    /\ manager' = [manager EXCEPT
            !.record = update_trip_plan_status(@, "cancelled", stored),
            !.cancel_result = IF stored THEN "True" ELSE "False",
            !.cancelled_running = @ \/ (stored /\ manager.pc = "running")]
    /\ UNCHANGED <<brokerVars, agentVars, async_agent, pipeVars, former, routerVars, enhanced>>

NextManager ==
    \/ start_workflow
    \/ workflow_stage
    \/ \E plan_status \in {"completed", "failed"}, stored \in BOOLEAN :
            workflow_returned(plan_status, stored)
    \/ \E stored \in BOOLEAN : workflow_raised(stored)
    \/ \E stored \in BOOLEAN : cancel_workflow(stored)

SpecManager == Init /\ [][NextManager]_vars

\* ---------------------------------------------------------------- claims
IsSendRequest(c) == calls[c].api = "send_request"
Ended(c) == calls[c].pc = "done"
GotResponse(c) == calls[c].result.tag = "Response"

\* C1: every send_request call ends by handing a ResponseMessage to its
\* caller: no call ends with an exception.
C1_SendRequestReturnsResponse ==
    \A c \in CallIds : IsSendRequest(c) /\ Ended(c) => GotResponse(c)

\* The Response send_request is said to hand back for an unknown agent.
IsNotFound(r) ==
    /\ r.tag = "Response"
    /\ ~r.msg.success
    /\ r.msg.error = "Agent not found"

\* C2: a send_request whose to_agent is not in the registry ends at once, in
\* the step that made the call, with a Response that has success = false and
\* a not-found error: it neither raises nor waits.
C2_UnknownAgentNotFound ==
    [][\A f \in Senders, t \in AgentNames, x \in ActionNames, tmo \in Timeouts :
          send_request(f, t, x, tmo) /\ agents[t] = "absent"
          => /\ calls'[ncalls + 1].pc = "done"
             /\ IsNotFound(calls'[ncalls + 1].result)]_vars

C4_CallReturnsOwnResponse ==
    \A c \in CallIds :
        IsSendRequest(c) /\ Ended(c)
        => /\ GotResponse(c)
           /\ calls[c].result.msg.original_request_id = c

\* The correlation alone: a Response handed back for a Request, by send_request
\* or by send_message called directly, carries that Request's request_id.
ResponseCarriesOwnId ==
    \A c \in CallIds :
        calls[c].mtype = "request" /\ Ended(c) /\ GotResponse(c)
        => calls[c].result.msg.original_request_id = c

\* Two send_request calls overlap: one is still inside its handler when the
\* other hands back the Response its own handler built.
OverlappingRequestsAnswered ==
    \E c \in CallIds, d \in CallIds :
        /\ c # d
        /\ IsSendRequest(d) /\ calls[d].pc = "in_handler"
        /\ IsSendRequest(c) /\ Ended(c) /\ GotResponse(c)
        /\ calls[c].hout = "return"

\* C5: a Request whose handler raised is answered with a Response that has
\* success = false and the exception's message as error; no exception reaches
\* the sender.
C5_HandlerErrorBecomesResponse ==
    \A c \in CallIds :
        calls[c].mtype = "request" /\ Ended(c) /\ calls[c].hout = "raise"
        => /\ GotResponse(c)
           /\ ~calls[c].result.msg.success
           /\ calls[c].result.msg.error = "boom"

\* C6: send_message on a Request to a registered agent that has no handler for
\* the action hands back, without raising and without calling any handler, a
\* Response with success = false and the no-handler error naming the action,
\* addressed to the sender.
C6_NoHandlerResponse ==
    [][\A m \in Messages :
          /\ send_message(m)
          /\ m.mtype = "request"
          /\ agents[m.to_agent] # "absent"
          /\ Lookup(m.to_agent, m.action) = "none"
          => /\ calls'[ncalls + 1].pc = "done"
             /\ calls'[ncalls + 1].invoked = 0
             /\ calls'[ncalls + 1].result =
                  Returned(ResponseMessage(m.to_agent, m.from_agent, m.action,
                        FALSE, NoHandlerError(m.action), ncalls + 1))]_vars

C10_NotificationReturnsNothing ==
    \A c \in CallIds :
        calls[c].api = "send_notification" /\ Ended(c)
        => /\ calls[c].result = ReturnedNone
           /\ calls[c].invoked <= 1
           /\ c \notin pending_requests

\* ---------------------------------------------- claims on message classes
\* C12: every message the substrate builds (the Request of send_request, the
\* Notification of send_notification, every synthetic or wrapped Response) is
\* constructed successfully: no call of the broker ends with the TypeError of
\* a message constructor.
C12_MessagesConstructed ==
    \A c \in CallIds :
        ~(calls[c].result.tag = "Raised" /\ calls[c].result.exc = "TypeError")

\* The same for the calls that build a Notification only.
NotificationsConstructed ==
    \A c \in CallIds :
        calls[c].api = "send_notification" => calls[c].result.tag # "Raised"
\* -------------------------------------------------- claims on agent objects
\* C11: after an agent has called register_action_handler(action, fn), the
\* broker's handler table holds a handler for (agent name, action).
C11_ActionHandlerRegistered ==
    [][\A a \in AgentNames, x \in ActionNames :
          register_action_handler(a, x) => handlers'[a][x] # "none"]_vars

RECURSIVE SumElapsed(_)
SumElapsed(S) ==
    IF S = {} THEN 0
    ELSE LET e == CHOOSE k \in S : TRUE
         IN execs[e].elapsed + SumElapsed(S \ {e})

ReturnedExecs == {e \in ExecIds : execs[e].pc = "done"}

\* C13: execute never re-raises: a call whose task logic raised ended with the
\* failure AgentResponse and left the status at "error", a call whose task
\* logic returned ended with its result and left the status at "completed",
\* and the status is "processing" while a call is between its start and its
\* outcome.
C13_ExecuteOutcomes ==
    \A e \in ExecIds :
        /\ execs[e].pc = "in_task" => status = "processing"
        /\ execs[e].pc = "done" /\ execs[e].outcome = "raised" =>
                execs[e].result = FailureResponse /\ execs[e].left_status = "error"
        /\ execs[e].pc = "done" /\ execs[e].outcome = "returned" =>
                execs[e].result = TaskResult /\ execs[e].left_status = "completed"

\* The first two parts of C13 alone: what each ended call returned and the
\* status it left.
ExecuteNeverRaises ==
    \A e \in ExecIds :
        execs[e].pc = "done" =>
            IF execs[e].outcome = "raised"
            THEN execs[e].result = FailureResponse /\ execs[e].left_status = "error"
            ELSE execs[e].result = TaskResult /\ execs[e].left_status = "completed"

\* C14: the statistics account for every execute call that has returned, the
\* failed ones included: the count is the number of ended calls and the total
\* is the sum of their elapsed times.
C14_StatisticsCountEveryCall ==
    /\ execution_count = Cardinality(ReturnedExecs)
    /\ total_execution_time = SumElapsed(ReturnedExecs)

\* What the code keeps instead: the statistics of the calls whose task logic
\* returned.
StatisticsCountSuccesses ==
    LET ok == {e \in ReturnedExecs : execs[e].outcome = "returned"}
    IN  execution_count = Cardinality(ok) /\ total_execution_time = SumElapsed(ok)

\* C15: at most 10 execute calls of one AsyncAgent are inside the task logic
\* at any moment; the further calls wait on the semaphore and are not dropped
\* (every issued call is waiting, woken, inside or ended, and a call waits only
\* while no slot is free or a woken call is ahead of it), and a call that
\* ends, by an exception too, gives its slot back (free and taken slots always
\* add up to ten).
C15_SemaphoreBoundsExecute ==
    /\ async_agent.inside <= 10
    /\ async_agent.issued = async_agent.waiting + async_agent.woken
            + async_agent.inside + async_agent.returned + async_agent.raised
    /\ async_agent.waiting > 0 => async_agent.value = 0 \/ async_agent.woken > 0
    /\ async_agent.value + async_agent.woken + async_agent.inside = 10

\* A further call waits while ten are inside, after a call that raised.
C15_Witness ==
    /\ async_agent.inside = 10
    /\ async_agent.waiting > 0
    /\ async_agent.raised > 0

\* ------------------------------------------------ claims on the pipeline
InTrace(e) == \E i \in 1 .. Len(trace) : trace[i] = e
InList(n, list) == \E i \in 1 .. Len(list) : list[i] = n
EndedAs(how) == {n \in Stages : stage_results[n].how = how}
IsHow(n, how) == stage_results[n].how = how
ReturnedInOrder == SelectSeq(node_order, LAMBDA n : stage_results[n].how = "returned")
RaisedInOrder == SelectSeq(node_order, LAMBDA n : stage_results[n].how = "raised")

\* C16: run tolerates intermediate stage failures: whichever stages raised,
\* in the returned state every declared stage has been invoked, each raising
\* stage's name is in failed_steps, the finalization has been invoked, and
\* when the finalization succeeded plan_status is "completed".
C16_StageFailuresTolerated ==
    run_pc = "returned" =>
        /\ \A n \in Stages : InTrace(Start(n)) /\ stage_results[n].how # "-"
        /\ \A n \in EndedAs("raised") : InList(n, state.failed_steps)
        /\ InTrace(Start("finalize"))
        /\ finalization = "succeeded" => state.plan_status = "completed"

\* A run in which the first and the last stage raised returned "completed".
C16_Witness ==
    /\ run_pc = "returned"
    /\ stage_results["destination"].how = "raised"
    /\ stage_results["budget"].how = "raised"
    /\ stage_results["hotel"].how = "returned"
    /\ state.plan_status = "completed"

\* C17: in the returned state completed_steps is exactly the list, in
\* declared order, of the stages whose execute returned, and failed_steps is
\* exactly the list of those whose execute raised; the two lists are disjoint
\* and together hold every declared stage once.
C17_StepListsExact ==
    run_pc = "returned" =>
        /\ state.completed_steps = ReturnedInOrder
        /\ state.failed_steps = RaisedInOrder
        /\ \A n \in Stages :
              InList(n, state.completed_steps) # InList(n, state.failed_steps)

\* The half of C17 that is about failed_steps.
FailedStepsExact ==
    run_pc = "returned" => state.failed_steps = RaisedInOrder

\* C18: the status is "processing" until run returns; the returned status is
\* "completed" or "failed", and it is "failed" exactly when the finalization
\* failed, with the failure's message in error_message, whatever the stages did.
C18_FailedOnlyByFinalization ==
    /\ run_pc \in Stages \cup {"finalize"} => state.plan_status = "processing"
    /\ run_pc = "returned" =>
          /\ state.plan_status \in {"completed", "failed"}
          /\ state.plan_status = "failed" <=> finalization = "failed"
          /\ finalization = "failed" => state.error_message \in FinalizeErrors
          /\ finalization # "failed" => state.error_message = "None"

\* Every stage raised and the run is "completed"; that is not yet the failed
\* case, which C18_Witness is.
AllRaisedStillCompleted ==
    run_pc = "returned" /\ EndedAs("raised") = Stages
        /\ state.plan_status = "completed"

\* Every stage returned, the finalization failed, the run is "failed".
C18_Witness ==
    /\ run_pc = "returned"
    /\ EndedAs("returned") = Stages
    /\ finalization = "failed"
    /\ state.plan_status = "failed"
    /\ state.error_message = "completion failed"

\* The declared order of C19, written out.
DeclaredTrace ==
    <<Start("destination"), End("destination"), Start("flight"), End("flight"),
      Start("hotel"), End("hotel"), Start("dining"), End("dining"),
      Start("itinerary"), End("itinerary"), Start("budget"), End("budget"),
      Start("finalize"), End("finalize")>>

\* C19: the stages start in the declared order, each once, stage N+1 only
\* after stage N has ended, and the finalization once, after the last stage
\* has ended: the starts and ends so far are a prefix of the declared
\* sequence, and all of it once run has returned.
C19_DeclaredOrder ==
    /\ Len(trace) <= Len(DeclaredTrace)
    /\ trace = SubSeq(DeclaredTrace, 1, Len(trace))
    /\ run_pc = "returned" => trace = DeclaredTrace
    /\ run_pc \in Stages => trace[Len(trace)] = Start(run_pc)
    /\ run_pc = "finalize" => trace[Len(trace)] = Start("finalize")

\* A run with a raising stage in the middle has gone through all of it.
C19_Witness ==
    /\ run_pc = "returned"
    /\ stage_results["hotel"].how = "raised"
    /\ stage_results["dining"].how = "returned"
    /\ Len(trace) = 14

\* The stages that returned a value for slot k.
Writers(k) ==
    {n \in Stages : stage_results[n].how = "returned"
                      /\ k \in DOMAIN stage_results[n].pairs}

\* The value the last of them returned, None when there is none.
LastValue(k) ==
    IF Writers(k) = {} THEN "None"
    ELSE LET n == CHOOSE w \in Writers(k) :
                     \A m \in Writers(k) : Position(m) <= Position(w)
         IN  stage_results[n].pairs[k]

\* The merging half of C20: at every moment of a run each slot holds the value
\* of the last stage that returned it, so pairs merged earlier are kept when a
\* later stage raises.
MergedPairsKept ==
    run_pc # "idle" => \A k \in ResultKeys : state.results[k] = LastValue(k)

\* C20: when every stage returned and the finalization succeeded, the
\* returned state holds every pair the stages returned (the last value for a
\* key returned twice), a non-empty final output, status "completed" and a set
\* end_time; pairs merged earlier are kept when a later stage raises.
C20_CompleteRunState ==
    /\ MergedPairsKept
    /\ run_pc = "returned" /\ EndedAs("returned") = Stages
            /\ finalization = "succeeded" =>
          /\ state.final_plan \notin {"None", ""}
          /\ state.plan_status = "completed"
          /\ state.end_time = "set"

\* C20 with "a final output" in place of "a non-empty final output".
CompleteRunStateAnyText ==
    /\ MergedPairsKept
    /\ run_pc = "returned" /\ EndedAs("returned") = Stages
            /\ finalization = "succeeded" =>
          /\ state.final_plan \in CompletionTexts
          /\ state.plan_status = "completed"
          /\ state.end_time = "set"

\* ------------------------------------- claims on the status under overlap
\* C28: whenever at least one execute call on an agent object has started and
\* has not returned, the status of that object is "processing": a call that
\* ends does not move the status while another call is still running.
C28_StatusReflectsInFlight ==
    (\E e \in ExecIds : execs[e].pc = "in_task") => status = "processing"

\* One call alone: with no other call in flight the status is "processing"
\* for as long as the call is inside its task logic.
StatusOfSingleCall ==
    Cardinality({e \in ExecIds : execs[e].pc # "free"}) = 1
        => C28_StatusReflectsInFlight

\* ------------------------------------------------ claims on the registry
\* The frame of a registration: name maps to the new object, its handler
\* table is empty, the entries of every other name are as before.
RegistrationFrame(a, i) ==
    /\ agents'[a] = i
    /\ \A x \in ActionNames : handlers'[a][x] = "none"
    /\ \A b \in AgentNames \ {a} :
            agents'[b] = agents[b] /\ handlers'[b] = handlers[b]

\* C26: register_agent(name, instance) makes name deliverable with an empty
\* handler table and leaves the entries of all other names unchanged; after
\* a second registration of name, a request to an action that had a handler
\* before gets the no-handler failure Response.
C26_RegisterAgentResets ==
    [][/\ \A a \in AgentNames, i \in Instances :
            construct_agent(a, i) => RegistrationFrame(a, i)
       /\ \A m \in Requests :
            /\ send_message(m)
            /\ <<m.to_agent, m.action>> \in former
            /\ Lookup(m.to_agent, m.action) = "none"
            => calls'[ncalls + 1].result =
                  Returned(ResponseMessage(m.to_agent, m.from_agent, m.action,
                        FALSE, NoHandlerError(m.action), ncalls + 1))]_vars

\* The registration alone, without the requests that follow it.
RegisterAgentFrame ==
    [][\A a \in AgentNames, i \in Instances :
            construct_agent(a, i) => RegistrationFrame(a, i)]_vars

\* A second object was constructed under a name that had a handler, and a
\* request to that action has been answered since.
ReplacedAgentAsked ==
    \E c \in CallIds :
        /\ calls[c].mtype = "request" /\ calls[c].pc = "done"
        /\ <<calls[c].to_agent, calls[c].action>> \in former
        /\ calls[c].invoked = 0
        /\ agents[calls[c].to_agent] = "i2"

\* --------------------------------------------- claims on requests in flight
\* A send_request call that has started and not ended.
InFlight(c) ==
    IsSendRequest(c) /\ calls[c].pc \in {"in_handler", "await_future"}

\* The step changed the record (arguments, position, Future, result) or the
\* pending slot of request c.
Changed(c) ==
    \/ calls'[c] # calls[c]
    \/ (c \in pending_requests') # (c \in pending_requests)

ExplicitFailures ==
    {"query must not be empty", "intent not recognised",
     "routing failed: no lower"}

\* C21: whatever the query and whatever the model call ended with,
\* AgentRouter.execute either forwards the call to the execute of exactly one
\* registered agent or returns an explicit failure result; it never returns
\* success without having invoked an agent and never invokes more than one.
C21_RoutesToOneOrFails ==
    /\ Len(router.invoked) <= 1
    /\ router.pc = "agent" =>
            /\ router.final_intent \in AgentTypeSet
            /\ router.invoked = <<router.final_intent>>
    /\ router.pc = "done" =>
            /\ \/ Len(router.invoked) = 1 /\ router.invoked[1] \in AgentTypeSet
               \/ /\ router.response.success = FALSE
                  /\ router.response.message \in ExplicitFailures
            /\ router.response.success = TRUE =>
                    router.invoked = <<router.response.routed_agent>>

\* The model call raised and no keyword occurs in the query: execute has
\* forwarded the call to the default agent, and to no other, and returned.
C21_Witness ==
    /\ router.pc = "done"
    /\ router.query = {"nihao"}
    /\ router.llm_intent = None /\ router.keyword_intent = None
    /\ router.response.success = TRUE
    /\ router.invoked = <<"route">>

Declared(a) == CHOOSE i \in 1 .. Len(AgentTypes) : AgentTypes[i] = a

\* The number of keywords of an agent that occur in the lower-cased query.
KeywordCount(a, query) ==
    Cardinality({i \in 1 .. Len(intent_keywords[a]) :
                    Occurs(intent_keywords[a][i], QueryLower(query))})

\* The agent with the highest non-zero keyword count, ties going to the one
\* declared first; None when no keyword occurs.
KeywordReference(query) ==
    LET scored == {a \in AgentTypeSet : KeywordCount(a, query) > 0}
    IN  IF scored = {} THEN None
        ELSE CHOOSE a \in scored :
                \A b \in scored :
                    \/ KeywordCount(a, query) > KeywordCount(b, query)
                    \/ /\ KeywordCount(a, query) = KeywordCount(b, query)
                       /\ Declared(a) <= Declared(b)

\* The reference resolution of a model result m and a keyword result k.
ResolveReference(m, k) ==
    CASE m # None /\ k # None /\ m = k -> m
      [] m # None /\ k = None -> m
      [] m = None /\ k # None -> k
      [] m # None /\ k # None /\ m # k -> m
      [] OTHER -> "route"

\* C24: _resolve_intent equals the reference: the common agent when the model
\* result and the keyword result agree, the one that is present when only one
\* is, the model result when they differ, the default route agent when neither
\* is present; the keyword result is the agent with the highest non-zero
\* keyword count, ties going to the agent declared first.
C24_ResolveMatchesReference ==
    resolution # NoResolution
    => /\ resolution.keyword_intent = KeywordReference(resolution.query)
       /\ resolution.final_intent =
            ResolveReference(resolution.llm_intent,
                             KeywordReference(resolution.query))

\* The model result and the keyword result are both present and differ, the
\* keyword result being that of a tie between two agents.
C24_Witness ==
    /\ resolution.query = {"tuijian"}
    /\ resolution.llm_intent = "poi"
    /\ resolution.keyword_intent = "search"
    /\ resolution.final_intent = "poi"

\* A query that names the bank machine resolves to the default agent: the
\* table entry is in capitals and the query is lower-cased before matching.
CapitalKeywordUnmatched ==
    resolution.query = {"ATM"} /\ resolution.llm_intent = None
        => resolution.keyword_intent = None /\ resolution.final_intent = "route"

RoutingTerms == {"luxian", "daohang", "zenmezou"}
WeatherTerms == {"tianqi", "xiayu", "wendu"}

\* C25: with no model-based result, a query that mentions a routing term and
\* a weather term is resolved to the route agent, and a query to which no
\* rule applies (no keyword occurs in it) is resolved to the default route
\* agent.
C25_RoutingBeforeWeather ==
    resolution # NoResolution /\ resolution.llm_intent = None
    => /\ AnyOccurs(RoutingTerms, resolution.query)
            /\ AnyOccurs(WeatherTerms, resolution.query)
            => resolution.final_intent = "route"
       /\ resolution.keyword_intent = None => resolution.final_intent = "route"

\* The second half of C25 alone: the default.
DefaultIsRoute ==
    resolution # NoResolution /\ resolution.llm_intent = None
        /\ resolution.keyword_intent = None
    => resolution.final_intent = "route"

\* C30: the success flag of the router reports the routing: whenever execute
\* resolved an agent and that agent's execute returned, the router returns
\* success = true with the agent's result in data, whatever the success flag
\* of that result; it returns success = false only for an empty query, an
\* unresolved intent or an exception raised in the router itself.
C30_SuccessReportsRouting ==
    router.pc = "done"
    => /\ Len(router.invoked) = 1
            => /\ router.response.success = TRUE
               /\ router.response.data \in AgentResults
       /\ router.response.success = FALSE
            => \/ /\ router.response.message = "query must not be empty"
                  /\ router.query = EmptyQuery
               \/ /\ router.response.message = "intent not recognised"
                  /\ router.final_intent \notin AgentTypeSet
               \/ /\ router.response.message = "routing failed: no lower"
                  /\ ~IsString(router.query)

\* The routed agent handed back a failure and the router reports success.
C30_Witness ==
    /\ router.pc = "done"
    /\ router.response.success = TRUE
    /\ router.response.data = [success |-> FALSE]

\* The router has reported a failure of its own: the query has no lower().
RouterOwnFailure ==
    /\ router.pc = "done"
    /\ router.response.success = FALSE
    /\ ~IsString(router.query)

\* ------------------------------------------- claims on the enhanced router
\* C23: EnhancedAgentRouter.execute, for a non-empty query whose recognised
\* primary intent is agent X, returns a result with success = true and
\* routed_agent = X, whether the primary intent came from the model's JSON
\* answer or from the keyword fallback.
C23_EnhancedRoutesToRecognised ==
    /\ enhanced.pc = "done"
    /\ enhanced.query # EmptyQuery
    /\ enhanced.primary_intent.name \in AgentTypeSet
    => /\ enhanced.response.success = TRUE
       /\ enhanced.response.routed_agent = enhanced.primary_intent.name

\* C23 for the keyword fallback alone.
FallbackRoutesToRecognised ==
    enhanced.source = "fallback" => C23_EnhancedRoutesToRecognised

\* The three queries of the tests, routed through the fallback.
TestQueriesRouted ==
    /\ enhanced.pc = "done" /\ enhanced.source = "fallback"
    /\ enhanced.response.success = TRUE
    /\ \/ enhanced.query = {"luxianguihua"}
            /\ enhanced.response.routed_agent = "route"
       \/ enhanced.query = {"tianqi"}
            /\ enhanced.response.routed_agent = "weather"
       \/ enhanced.query = {"canting"}
            /\ enhanced.response.routed_agent = "poi"

\* ----------------------------------------- claims on the workflow manager
\* C29: cancellation is final: once cancel_workflow(id) has returned True
\* while a start_workflow call for id was running, the status record of id
\* stays "cancelled" and that call runs no further stage.
C29_CancellationIsFinal ==
    manager.cancelled_running
    => /\ manager.record = "cancelled"
       /\ manager.stages_after_cancel = 0

\* What cancel_workflow itself does: a status that was stored is "cancelled"
\* when the call returns True.
CancelWritesCancelled ==
    [][\A stored \in BOOLEAN :
            cancel_workflow(stored) /\ manager'.cancel_result = "True"
            => manager'.record = "cancelled"]_vars

====
